---- MODULE Spec2Model ----
(***************************************************************************)
(* Model of src/src/http_client_mcp/server.py: the http_request tool, the  *)
(* HttpRequestParams validators, make_http_request and _get_status_text.   *)
(*                                                                         *)
(* Python strings whose characters matter (url, method, body_type, body)   *)
(* are sequences of one-character strings.  Optional values are sequences  *)
(* of length 0 (None) or 1.  Dicts with string keys are functions.         *)
(* Timeouts are counted in hundredths of a second.                         *)
(***************************************************************************)
EXTENDS Integers, Sequences, FiniteSets, TLC

\* ---------------------------------------------------------------- bounds
NumConc == 2
MaxMethodLen == 3
MaxStatus == 700

\* ------------------------------------------------------- program constants
TimeoutMin == 10
TimeoutMax == 30000

\* ---------------------------------------------------------------- helpers
None == <<>>
Some(x) == <<x>>
IsNone(o) == Len(o) = 0
EmptyDict == [k \in {} |-> ""]
OrEmpty(o) == IF IsNone(o) THEN EmptyDict ELSE o[1]

LowerAlpha == <<"a","b","c","d","e","f","g","h","i","j","k","l","m",
                "n","o","p","q","r","s","t","u","v","w","x","y","z">>
UpperAlpha == <<"A","B","C","D","E","F","G","H","I","J","K","L","M",
                "N","O","P","Q","R","S","T","U","V","W","X","Y","Z">>

\* str.upper() on one character; U+017F (long s) and U+0131 (dotless i)
\* are the non-ASCII characters whose uppercase is an ASCII letter.
UpperChar(c) ==
  IF \E k \in 1..26 : LowerAlpha[k] = c
  THEN UpperAlpha[CHOOSE k \in 1..26 : LowerAlpha[k] = c]
  ELSE IF c = "long_s" THEN "S"
  ELSE IF c = "dotless_i" THEN "I"
  ELSE c

LowerChar(c) ==
  IF \E k \in 1..26 : UpperAlpha[k] = c
  THEN LowerAlpha[CHOOSE k \in 1..26 : UpperAlpha[k] = c]
  ELSE c

Upper(s) == [k \in 1..Len(s) |-> UpperChar(s[k])]
Lower(s) == [k \in 1..Len(s) |-> LowerChar(s[k])]

StartsWith(s, p) == Len(s) >= Len(p) /\ SubSeq(s, 1, Len(p)) = p

\* ------------------------------------------------------ string literals
S_GET == <<"G","E","T">>
S_POST == <<"P","O","S","T">>
S_PUT == <<"P","U","T">>
S_DELETE == <<"D","E","L","E","T","E">>
S_PATCH == <<"P","A","T","C","H">>
S_HEAD == <<"H","E","A","D">>
S_OPTIONS == <<"O","P","T","I","O","N","S">>

S_json == <<"j","s","o","n">>
S_form == <<"f","o","r","m">>
S_text == <<"t","e","x","t">>
S_raw == <<"r","a","w">>

S_http == <<"h","t","t","p",":","/","/">>
S_https == <<"h","t","t","p","s",":","/","/">>

\* --------------------------------------------- HttpRequestParams validators
valid_methods == {S_GET, S_POST, S_PUT, S_DELETE, S_PATCH, S_HEAD, S_OPTIONS}
valid_types == {S_json, S_form, S_text, S_raw}

validate_method_nocase(v) == [ok |-> v \in valid_methods, value |-> v, offending |-> v]
validate_method(v) ==
  LET method_upper == Upper(v)
  IN  [ok |-> method_upper \in valid_methods, value |-> method_upper, offending |-> v]

validate_body_type(v) == [ok |-> Lower(v) \in valid_types, value |-> Lower(v)]

validate_url(v) == [ok |-> StartsWith(v, S_http) \/ StartsWith(v, S_https), value |-> v]

validate_timeout(t) == [ok |-> t >= TimeoutMin /\ t <= TimeoutMax, value |-> t]

\* pydantic collects the errors of every field into one ValidationError.
ValidationErrors(a) ==
  (IF validate_url(a.url).ok THEN {} ELSE {"InvalidUrl"})
  \cup (IF validate_method(a.method).ok THEN {} ELSE {"InvalidMethod"})
  \cup (IF validate_body_type(a.body_type).ok THEN {} ELSE {"InvalidBodyType"})
  \cup (IF validate_timeout(a.timeout).ok THEN {} ELSE {"InvalidTimeout"})

\* The descriptor; pydantic builds new dict objects for headers and params,
\* so the descriptor's headers are a copy of the caller's.
HttpRequestParams(a) ==
  [url |-> validate_url(a.url).value,
   method |-> validate_method(a.method).value,
   headers |-> a.headers,
   params |-> a.params,
   body |-> a.body,
   body_type |-> validate_body_type(a.body_type).value,
   timeout |-> validate_timeout(a.timeout).value,
   follow_redirects |-> a.follow_redirects,
   verify_ssl |-> a.verify_ssl]

\* --------------------------------------------------- request body values
\* body: Optional[Union[str, Dict[str, Any]]]; a dict body is the sequence of
\* its (key, value) items in insertion order, keys and values strings.
NoBody == [kind |-> "none", str |-> <<>>, dict |-> <<>>]
StrBody(s) == [kind |-> "str", str |-> s, dict |-> <<>>]
DictBody(d) == [kind |-> "dict", str |-> <<>>, dict |-> d]

S_empty == <<>>
S_braces == <<"{","}">>
S_one == <<"1">>
S_notjson == <<"n","o","t"," ","j","s","o","n">>
S_a == <<"a">>
S_2sp3 == <<"2"," ","3">>

RECURSIVE Concat(_)
Concat(ss) == IF Len(ss) = 0 THEN <<>> ELSE Head(ss) \o Concat(Tail(ss))

RECURSIVE Join(_, _)
Join(ss, sep) ==
  IF Len(ss) = 0 THEN <<>>
  ELSE IF Len(ss) = 1 THEN ss[1]
  ELSE ss[1] \o sep \o Join(Tail(ss), sep)

\* json.dumps of a str: quotes, with '"' and '\' escaped.
JsonEscapeChar(c) == IF c = "\"" \/ c = "\\" THEN <<"\\", c>> ELSE <<c>>
json_dumps_str(s) ==
  <<"\"">> \o Concat([k \in 1..Len(s) |-> JsonEscapeChar(s[k])]) \o <<"\"">>

\* json.dumps of a dict with the default separators ', ' and ': '.
json_dumps(d) ==
  <<"{">>
  \o Join([k \in 1..Len(d) |->
             json_dumps_str(d[k][1]) \o <<":"," ">> \o json_dumps_str(d[k][2])],
          <<","," ">>)
  \o <<"}">>

\* urllib.parse.quote_plus on one character.
QuotePlusChar(c) ==
  IF c = " " THEN <<"+">>
  ELSE IF c = "&" THEN <<"%","2","6">>
  ELSE IF c = "=" THEN <<"%","3","D">>
  ELSE IF c = "{" THEN <<"%","7","B">>
  ELSE IF c = "}" THEN <<"%","7","D">>
  ELSE <<c>>
quote_plus(s) == Concat([k \in 1..Len(s) |-> QuotePlusChar(s[k])])

urlencode(d) ==
  Join([k \in 1..Len(d) |-> quote_plus(d[k][1]) \o <<"=">> \o quote_plus(d[k][2])],
       <<"&">>)

\* str(d) of a dict: repr, with single quotes.
py_repr_str(s) == <<"'">> \o s \o <<"'">>
py_str_dict(d) ==
  <<"{">>
  \o Join([k \in 1..Len(d) |->
             py_repr_str(d[k][1]) \o <<":"," ">> \o py_repr_str(d[k][2])],
          <<","," ">>)
  \o <<"}">>

\* json.loads(s) succeeds; decided for the string bodies the model supplies.
ValidJsonTexts == {S_braces, S_one}
json_loads_any(s) == TRUE
json_loads_ok(s) == s \in ValidJsonTexts

\* dict.setdefault(key, value)
setdefault_overwrite(h, key, value) ==
  [k \in DOMAIN h \cup {key} |-> IF k = key THEN value ELSE h[k]]
setdefault(h, key, value) == IF key \in DOMAIN h THEN h ELSE h @@ (key :> value)

\* `params.body is not None`
body_is_not_None(b) == b.kind # "none"

\* Lines 101-132: the local `headers` and `request_body` after body
\* construction; ok = FALSE is the ValueError of line 115.
BuildBody(p) ==
  LET headers == OrEmpty(p.headers)
  IN
  IF ~body_is_not_None(p.body)
  THEN [ok |-> TRUE, headers |-> headers, request_body |-> None]
  ELSE IF p.body_type = S_json
  THEN IF p.body.kind = "dict"
       THEN [ok |-> TRUE,
             headers |-> setdefault(headers, "Content-Type", "application/json"),
             request_body |-> Some(json_dumps(p.body.dict))]
       ELSE IF json_loads_ok(p.body.str)
       THEN [ok |-> TRUE,
             headers |-> setdefault(headers, "Content-Type", "application/json"),
             request_body |-> Some(p.body.str)]
       ELSE [ok |-> FALSE, headers |-> headers, request_body |-> None]
  ELSE IF p.body_type = S_form
  THEN IF p.body.kind = "dict"
       THEN [ok |-> TRUE,
             headers |-> setdefault(headers, "Content-Type",
                                     "application/x-www-form-urlencoded"),
             request_body |-> Some(urlencode(p.body.dict))]
       ELSE [ok |-> TRUE,
             headers |-> setdefault(headers, "Content-Type",
                                     "application/x-www-form-urlencoded"),
             request_body |-> Some(p.body.str)]
  ELSE IF p.body_type = S_text
  THEN [ok |-> TRUE,
        headers |-> setdefault(headers, "Content-Type", "text/plain"),
        request_body |-> Some(IF p.body.kind = "dict" THEN py_str_dict(p.body.dict)
                              ELSE p.body.str)]
  ELSE [ok |-> TRUE, headers |-> headers,
        request_body |-> Some(IF p.body.kind = "dict" THEN py_str_dict(p.body.dict)
                              ELSE p.body.str)]

\* ------------------------------------------------------------ exceptions
\* The classes that matter to the except clauses, each with its base class.
BaseClass(c) ==
  CASE c = "ConnectTimeout" -> "TimeoutException"
    [] c = "ReadTimeout" -> "TimeoutException"
    [] c = "TimeoutException" -> "TransportError"
    [] c = "ConnectError" -> "TransportError"
    [] c = "TransportError" -> "RequestError"
    [] c = "TooManyRedirects" -> "RequestError"
    [] c = "RequestError" -> "HTTPError"
    [] c = "HTTPError" -> "Exception"
    [] c = "InvalidURL" -> "Exception"
    [] c = "RuntimeError" -> "Exception"
    [] c = "ValidationError" -> "ValueError"
    [] c = "ValueError" -> "Exception"
    [] c = "Exception" -> "BaseException"
    [] OTHER -> "BaseException"

RECURSIVE IsSubclass(_, _)
IsSubclass(c, d) ==
  IF c = d THEN TRUE
  ELSE IF c = "BaseException" THEN FALSE
  ELSE IsSubclass(BaseClass(c), d)

Msg(prefix, timeout, detail, kinds, value) ==
  [prefix |-> prefix, timeout |-> timeout, detail |-> detail,
   kinds |-> kinds, value |-> value]

Exc(cls, msg) == [cls |-> cls, msg |-> msg]

\* The ValidationError of line 206; its text lists every failed field and,
\* for the method, the offending value (line 67).
ValidationError(a) ==
  Exc("ValidationError",
      Msg("validation error", None, "", ValidationErrors(a),
          IF validate_method(a.method).ok THEN <<>>
          ELSE validate_method(a.method).offending))

InvalidJsonBody == Exc("ValueError", Msg("Invalid JSON body provided", None, "", {}, <<>>))

\* Lines 159-165: the except clauses of make_http_request, tried in order.
ExceptClausesSwapped == <<"RequestError", "TimeoutException", "Exception">>
ExceptClauses == <<"TimeoutException", "RequestError", "Exception">>

Classify(cls, p) ==
  LET k == CHOOSE n \in 1..Len(ExceptClauses) :
             /\ IsSubclass(cls, ExceptClauses[n])
             /\ \A m \in 1..(n - 1) : ~IsSubclass(cls, ExceptClauses[m])
      clause == ExceptClauses[k]
  IN  IF clause = "TimeoutException"
      THEN Exc("Exception", Msg("Request timed out after", Some(p.timeout), "", {}, <<>>))
      ELSE IF clause = "RequestError"
      THEN Exc("Exception", Msg("Request failed: ", None, cls, {}, <<>>))
      ELSE Exc("Exception", Msg("Unexpected error: ", None, cls, {}, <<>>))

\* ------------------------------------------------------ _get_status_text
status_texts ==
  (100 :> "Continue") @@ (101 :> "Switching Protocols") @@ (200 :> "OK")
  @@ (201 :> "Created") @@ (202 :> "Accepted") @@ (204 :> "No Content")
  @@ (301 :> "Moved Permanently") @@ (302 :> "Found") @@ (304 :> "Not Modified")
  @@ (307 :> "Temporary Redirect") @@ (308 :> "Permanent Redirect")
  @@ (400 :> "Bad Request") @@ (401 :> "Unauthorized") @@ (403 :> "Forbidden")
  @@ (404 :> "Not Found") @@ (405 :> "Method Not Allowed") @@ (409 :> "Conflict")
  @@ (422 :> "Unprocessable Entity") @@ (429 :> "Too Many Requests")
  @@ (500 :> "Internal Server Error") @@ (502 :> "Bad Gateway")
  @@ (503 :> "Service Unavailable") @@ (504 :> "Gateway Timeout")

\* f"{status_code} {phrase}" is the pair of the code and the phrase.
get_status_text_no_table(status_code) ==
  [code |-> status_code,
   phrase |-> IF 200 <= status_code /\ status_code < 300 THEN "Success"
              ELSE IF 300 <= status_code /\ status_code < 400 THEN "Redirection"
              ELSE IF 400 <= status_code /\ status_code < 500 THEN "Client Error"
              ELSE IF 500 <= status_code /\ status_code < 600 THEN "Server Error"
              ELSE "Unknown"]
get_status_text(status_code) ==
  IF status_code \in DOMAIN status_texts
  THEN [code |-> status_code, phrase |-> status_texts[status_code]]
  ELSE IF 200 <= status_code /\ status_code < 300
  THEN [code |-> status_code, phrase |-> "Success"]
  ELSE IF 300 <= status_code /\ status_code < 400
  THEN [code |-> status_code, phrase |-> "Redirection"]
  ELSE IF 400 <= status_code /\ status_code < 500
  THEN [code |-> status_code, phrase |-> "Client Error"]
  ELSE IF 500 <= status_code /\ status_code < 600
  THEN [code |-> status_code, phrase |-> "Server Error"]
  ELSE [code |-> status_code, phrase |-> "Unknown"]

\* ------------------------------------------------------------- envelopes
\* Python truthiness of `body` (line 226): None, "" and {} are false.
Truthy(b) ==
  IF b.kind = "str" THEN Len(b.str) > 0
  ELSE IF b.kind = "dict" THEN Len(b.dict) > 0
  ELSE FALSE

\* The `headers or {}` of lines 224 and 249: the caller's own argument.
EchoHeadersMerged(a, merged) == merged
EchoHeaders(a, merged) == OrEmpty(a.headers)

\* Lines 220-238.
SuccessEnvelope(a, p, merged, status_code) ==
  [request |-> [method |-> p.method,
                url |-> a.url,
                headers |-> EchoHeaders(a, merged),
                params |-> OrEmpty(a.params),
                body_type |-> IF Truthy(a.body) THEN Some(a.body_type) ELSE None,
                timeout |-> a.timeout],
   response |-> [status_code |-> status_code,
                 status_text |-> get_status_text(status_code)],
   success |-> (200 <= status_code /\ status_code < 300)]

\* Lines 243-252.
ErrorEnvelope(a, e) ==
  [error |-> TRUE,
   message |-> e.msg,
   request |-> [method |-> Upper(a.method),
                url |-> a.url,
                headers |-> OrEmpty(a.headers),
                params |-> OrEmpty(a.params)]]

\* `except Exception` of line 242.
OuterCatchesValueErrorOnly(cls) == IsSubclass(cls, "ValueError")
OuterCatches(cls) == IsSubclass(cls, "Exception")

\* ---------------------------------------------------------------- inputs
S_TRACE == <<"T","R","A","C","E">>
S_post == <<"p","o","s","t">>
S_JSON == <<"J","S","O","N">>
S_xml == <<"x","m","l">>
S_ftp == <<"f","t","p",":","/","/">>
S_host == <<"h">>

Urls == {S_http \o S_host, S_https \o S_host, S_ftp \o S_host}
HeaderChoices ==
  {None, Some(EmptyDict),
   Some("Content-Type" :> "text/html"),
   Some("content-type" :> "text/html"),
   Some("X-A" :> "1"),
   Some(("Content-Type" :> "text/html") @@ ("X-A" :> "1"))}
ParamChoices == {None, Some("q" :> "1")}
Bodies ==
  {NoBody, StrBody(S_empty), StrBody(S_braces), StrBody(S_notjson),
   DictBody(<<>>), DictBody(<< <<S_a, S_2sp3>> >>)}
BodyTypes == {S_json, S_JSON, S_form, S_text, S_raw, S_xml}
Timeouts == {TimeoutMin - 5, TimeoutMin, TimeoutMax, TimeoutMax + 1}

\* Every argument varies except the method's spelling.
ArgsMain ==
  [url : Urls, method : {S_GET, S_post, S_TRACE}, headers : HeaderChoices,
   params : ParamChoices, body : Bodies, body_type : BodyTypes,
   timeout : Timeouts, follow_redirects : BOOLEAN, verify_ssl : {TRUE}]

\* Method spellings: every string of at most MaxMethodLen characters over a
\* small alphabet, and spellings of the longer method names.
MethodAlphabet == {"g", "G", "e", "E", "t", "T", "p", "u", " "}
RECURSIVE StringsUpTo(_)
StringsUpTo(n) ==
  IF n = 0 THEN {<<>>}
  ELSE LET shorter == StringsUpTo(n - 1)
       IN  shorter \cup {Append(w, c) : w \in {x \in shorter : Len(x) = n - 1},
                                       c \in MethodAlphabet}
MethodSpellings ==
  StringsUpTo(MaxMethodLen)
  \cup valid_methods
  \cup {Lower(m) : m \in valid_methods}
  \cup {S_TRACE, <<"P","O","long_s","T">>, <<"O","P","T","dotless_i","O","N","S">>,
        <<"P","a","T","c","H">>, <<"G","E","T"," ">>, <<"P","O","S","T","S">>}

ArgsMethod ==
  [url : {S_https \o S_host}, method : MethodSpellings,
   headers : {None}, params : {None},
   body : {NoBody, DictBody(<< <<S_a, S_2sp3>> >>)}, body_type : {S_json},
   timeout : {TimeoutMax}, follow_redirects : {TRUE}, verify_ssl : {TRUE}]

ArgsConc ==
  [url : {S_https \o S_host}, method : {S_GET, S_TRACE},
   headers : {Some("X-A" :> "1")}, params : {None},
   body : {NoBody, StrBody(S_notjson)}, body_type : {S_json},
   timeout : {TimeoutMin}, follow_redirects : {TRUE}, verify_ssl : {TRUE}]

\* What the remote end can do to one request.
ServerCodes == {200, 201, 404, 500}
ServerFailures == {"ConnectTimeout", "ReadTimeout", "ConnectError",
                   "TooManyRedirects", "InvalidURL"}
NoExc == Exc("", Msg("", None, "", {}, <<>>))

\* ----------------------------------------------------------------- state
VARIABLES
  args,          \* invocation -> the caller's arguments
  pc,            \* invocation -> position in http_request / make_http_request
  request_params,\* invocation -> Optional descriptor (line 206)
  headers,       \* invocation -> the local `headers` of make_http_request
  request_body,  \* invocation -> the local `request_body`
  client,        \* invocation -> Optional client it opened
  openClients,   \* the clients that are open
  nextClient,    \* the next client object to be created
  sent,          \* invocation -> the outbound requests it issued, in order
  outcome,       \* invocation -> Optional outcome of make_http_request
                 \* (cause records the class client.request raised)
  result,        \* invocation -> Optional envelope returned to the caller
  stCode,        \* argument of _get_status_text
  stText         \* Optional result of _get_status_text

vars == <<args, pc, request_params, headers, request_body, client, openClients,
          nextClient, sent, outcome, result, stCode, stText>>

Invocations == DOMAIN args

InitWith(n, argSet, codes) ==
  /\ args \in [1..n -> argSet]
  /\ pc = [i \in 1..n |-> "start"]
  /\ request_params = [i \in 1..n |-> None]
  /\ headers = [i \in 1..n |-> EmptyDict]
  /\ request_body = [i \in 1..n |-> None]
  /\ client = [i \in 1..n |-> None]
  /\ openClients = {}
  /\ nextClient = 1
  /\ sent = [i \in 1..n |-> <<>>]
  /\ outcome = [i \in 1..n |-> None]
  /\ result = [i \in 1..n |-> None]
  /\ stCode \in codes
  /\ stText = None

Init == InitWith(1, ArgsMain, {0})
InitMethod == InitWith(1, ArgsMethod, {0})
InitConc == InitWith(NumConc, ArgsConc, {0})
InitStatus == InitWith(0, ArgsConc, 0..MaxStatus)

\* An exception e reaches the `except` of line 242: the envelope of lines
\* 243-253 is returned, or the exception leaves http_request.
Raise(i, e) ==
  IF OuterCatches(e.cls)
  THEN /\ pc' = [pc EXCEPT ![i] = "returned"]
       /\ result' = [result EXCEPT ![i] = Some(ErrorEnvelope(args[i], e))]
  ELSE /\ pc' = [pc EXCEPT ![i] = "raised"]
       /\ UNCHANGED result

\* Lines 206-216: HttpRequestParams(...).
Validate(i) ==
  /\ pc[i] = "start"
  /\ IF ValidationErrors(args[i]) = {}
     THEN /\ request_params' = [request_params EXCEPT
                                  ![i] = Some(HttpRequestParams(args[i]))]
          /\ pc' = [pc EXCEPT ![i] = "build"]
          /\ UNCHANGED result
     ELSE /\ Raise(i, ValidationError(args[i]))
          /\ UNCHANGED request_params
  /\ UNCHANGED <<args, headers, request_body, client, openClients, nextClient,
                 sent, outcome, stCode, stText>>

\* Lines 101-132: body construction.
Build(i) ==
  /\ pc[i] = "build"
  /\ LET b == BuildBody(request_params[i][1])
     IN  IF b.ok
         THEN /\ headers' = [headers EXCEPT ![i] = b.headers]
              /\ request_body' = [request_body EXCEPT ![i] = b.request_body]
              /\ pc' = [pc EXCEPT ![i] = "open"]
              /\ UNCHANGED result
         ELSE /\ Raise(i, InvalidJsonBody)
              /\ UNCHANGED <<headers, request_body>>
  /\ UNCHANGED <<args, request_params, client, openClients, nextClient, sent,
                 outcome, stCode, stText>>

\* Lines 134-138: `async with httpx.AsyncClient(...) as client`.
SharedClient(fresh) == 1
NewClient(fresh) == fresh

OpenClient(i) ==
  /\ pc[i] = "open"
  /\ client' = [client EXCEPT ![i] = Some(NewClient(nextClient))]
  /\ openClients' = openClients \cup {NewClient(nextClient)}
  /\ nextClient' = nextClient + 1
  /\ pc' = [pc EXCEPT ![i] = "send"]
  /\ UNCHANGED <<args, request_params, headers, request_body, sent, outcome,
                 result, stCode, stText>>

\* Lines 140-146: client.request(...) is issued and awaited.
SendRequest(i) ==
  /\ pc[i] = "send"
  /\ LET p == request_params[i][1]
     IN  sent' = [sent EXCEPT ![i] =
                    Append(@, [client |-> client[i][1],
                               method |-> p.method,
                               url |-> p.url,
                               headers |-> headers[i],
                               params |-> p.params,
                               content |-> request_body[i],
                               timeout |-> p.timeout,
                               follow_redirects |-> p.follow_redirects,
                               verify |-> p.verify_ssl])]
  /\ pc' = [pc EXCEPT ![i] = "await"]
  /\ UNCHANGED <<args, request_params, headers, request_body, client,
                 openClients, nextClient, result, outcome, stCode, stText>>

\* Where make_http_request goes once the awaited request has completed or
\* failed: out of the `async with` block, in both cases.
AfterRequestRetry(failed, nsent) == IF failed /\ nsent < 2 THEN "send" ELSE "close"
AfterRequest(failed, nsent) == "close"

\* Lines 148-165: the response is wrapped, or the failure classified.
ReceiveResponse(i) ==
  /\ pc[i] = "await"
  /\ \E status_code \in ServerCodes :
       outcome' = [outcome EXCEPT ![i] =
                     Some([ok |-> TRUE, status_code |-> status_code, exc |-> NoExc,
                           cause |-> ""])]
  /\ pc' = [pc EXCEPT ![i] = AfterRequest(FALSE, Len(sent[i]))]
  /\ UNCHANGED <<args, request_params, headers, request_body, client,
                 openClients, nextClient, sent, result, stCode, stText>>

ReceiveFailure(i) ==
  /\ pc[i] = "await"
  /\ \E cls \in ServerFailures :
       outcome' = [outcome EXCEPT ![i] =
                     Some([ok |-> FALSE, status_code |-> 0,
                           exc |-> Classify(cls, request_params[i][1]),
                           cause |-> cls])]
  /\ pc' = [pc EXCEPT ![i] = AfterRequest(TRUE, Len(sent[i]))]
  /\ UNCHANGED <<args, request_params, headers, request_body, client,
                 openClients, nextClient, sent, result, stCode, stText>>

\* The exit of the `async with` block of line 134: the client is closed.
CloseClient(i) ==
  /\ pc[i] = "close"
  /\ openClients' = openClients \ {client[i][1]}
  /\ pc' = [pc EXCEPT ![i] = "assemble"]
  /\ UNCHANGED <<args, request_params, headers, request_body, client,
                 nextClient, sent, outcome, result, stCode, stText>>

\* Lines 220-240 after a response, lines 242-253 after an exception.
Return(i) ==
  /\ pc[i] = "assemble"
  /\ IF outcome[i][1].ok
     THEN /\ result' = [result EXCEPT ![i] =
                          Some(SuccessEnvelope(args[i], request_params[i][1],
                                               headers[i], outcome[i][1].status_code))]
          /\ pc' = [pc EXCEPT ![i] = "returned"]
     ELSE Raise(i, outcome[i][1].exc)
  /\ UNCHANGED <<args, request_params, headers, request_body, client,
                 openClients, nextClient, sent, outcome, stCode, stText>>

\* _get_status_text applied to stCode.
StatusText ==
  /\ IsNone(stText)
  /\ stText' = Some(get_status_text(stCode))
  /\ UNCHANGED <<args, pc, request_params, headers, request_body, client,
                 openClients, nextClient, sent, outcome, result, stCode>>

Next ==
  \E i \in Invocations :
    \/ Validate(i)
    \/ Build(i)
    \/ OpenClient(i)
    \/ SendRequest(i)
    \/ ReceiveResponse(i)
    \/ ReceiveFailure(i)
    \/ CloseClient(i)
    \/ Return(i)

NextStatus == StatusText

Spec == Init /\ [][Next]_vars
SpecMethod == InitMethod /\ [][Next]_vars
SpecConc == InitConc /\ [][Next]_vars
SpecStatus == InitStatus /\ [][NextStatus]_vars

\* ================================================================ claims
\* The conditions of the claims, stated on the caller's arguments.
ArgsValid(a) ==
  /\ StartsWith(a.url, S_http) \/ StartsWith(a.url, S_https)
  /\ Upper(a.method) \in {S_GET, S_POST, S_PUT, S_DELETE, S_PATCH, S_HEAD, S_OPTIONS}
  /\ Lower(a.body_type) \in {S_json, S_form, S_text, S_raw}
  /\ a.timeout >= TimeoutMin /\ a.timeout <= TimeoutMax

BodyOk(a) ==
  ~(a.body.kind = "str" /\ Lower(a.body_type) = S_json /\ a.body.str \notin ValidJsonTexts)

CallFailed(i) == ~IsNone(outcome[i]) /\ ~outcome[i][1].ok

Failed(i) == ~ArgsValid(args[i]) \/ ~BodyOk(args[i]) \/ CallFailed(i)

Returned(i) == pc[i] = "returned" /\ ~IsNone(result[i])

IsSuccessEnvelope(e) == "response" \in DOMAIN e
IsErrorEnvelope(e) == "error" \in DOMAIN e

\* C1: no invocation ends by raising to its caller; an invocation that has
\* not returned is at a position of the code from which it goes on; a
\* returned invocation has an envelope, which has the field `error` exactly
\* when the invocation failed (validation, JSON body, timeout, transport or
\* unexpected failure) and the `response` block exactly when it did not.
C1_AlwaysEnvelope ==
  \A i \in Invocations :
    /\ pc[i] # "raised"
    /\ pc[i] \in {"start", "build", "open", "send", "await", "close",
                  "assemble", "returned"}
    /\ pc[i] \in {"build", "open", "send", "await"} => ~IsNone(request_params[i])
    /\ pc[i] \in {"send", "await", "close"} => ~IsNone(client[i])
    /\ pc[i] \in {"close", "assemble"} => ~IsNone(outcome[i])
    /\ pc[i] = "returned" =>
         /\ ~IsNone(result[i])
         /\ IsErrorEnvelope(result[i][1]) <=> Failed(i)
         /\ IsSuccessEnvelope(result[i][1]) <=> ~Failed(i)
         /\ IsErrorEnvelope(result[i][1]) => result[i][1].error = TRUE

C1_Witness ==
  \E i \in Invocations :
    /\ Returned(i)
    /\ CallFailed(i)
    /\ outcome[i][1].cause = "InvalidURL"
    /\ IsErrorEnvelope(result[i][1])

\* C2: an invocation that has opened a client or issued a request has valid
\* arguments, a constructible body, and its descriptor was built before.
C2_NoNetworkOnInvalid ==
  \A i \in Invocations :
    (~IsNone(client[i]) \/ Len(sent[i]) > 0) =>
      /\ ArgsValid(args[i])
      /\ BodyOk(args[i])
      /\ ~IsNone(request_params[i])

C2_Witness ==
  \E i \in Invocations :
    /\ Returned(i)
    /\ ArgsValid(args[i])
    /\ ~BodyOk(args[i])
    /\ IsNone(client[i])
    /\ Len(sent[i]) = 0
    /\ result[i][1].message.prefix = "Invalid JSON body provided"

\* C3: a returned invocation whose request timed out has error = true and the
\* timeout message with the configured timeout; one whose request failed in
\* the transport without timing out has the 'Request failed' message; any
\* other failure of the request has the 'Unexpected error' message.
TimeoutCauses == {"ConnectTimeout", "ReadTimeout"}
TransportCauses == {"ConnectError", "TooManyRedirects"}

C3_FailureClassification ==
  \A i \in Invocations :
    (pc[i] = "returned" /\ CallFailed(i)) =>
      /\ ~IsNone(result[i])
      /\ IsErrorEnvelope(result[i][1])
      /\ result[i][1].error = TRUE
      /\ outcome[i][1].cause \in TimeoutCauses =>
           /\ result[i][1].message.prefix = "Request timed out after"
           /\ result[i][1].message.timeout = Some(args[i].timeout)
      /\ outcome[i][1].cause \in TransportCauses =>
           result[i][1].message.prefix = "Request failed: "
      /\ outcome[i][1].cause \notin (TimeoutCauses \cup TransportCauses) =>
           result[i][1].message.prefix = "Unexpected error: "

C3_Witness ==
  \E i \in Invocations :
    /\ Returned(i)
    /\ CallFailed(i)
    /\ outcome[i][1].cause = "ReadTimeout"
    /\ result[i][1].message.timeout = Some(TimeoutMin)

\* C4: in every outbound request the Content-Type header is the caller's
\* when the caller gave the key `Content-Type`; otherwise the default of the
\* body type when a body is present and the type is json, form or text;
\* otherwise absent.  Every caller header is sent unchanged, and nothing
\* else is added.
ClaimedDefault(body_type) ==
  IF body_type = S_json THEN "application/json"
  ELSE IF body_type = S_form THEN "application/x-www-form-urlencoded"
  ELSE "text/plain"

C4_ContentType ==
  \A i \in Invocations : \A k \in 1..Len(sent[i]) :
    LET h == sent[i][k].headers
        a == args[i]
        ch == OrEmpty(a.headers)
        bt == Lower(a.body_type)
    IN  /\ IF "Content-Type" \in DOMAIN ch
           THEN "Content-Type" \in DOMAIN h /\ h["Content-Type"] = ch["Content-Type"]
           ELSE IF a.body.kind # "none" /\ bt \in {S_json, S_form, S_text}
           THEN "Content-Type" \in DOMAIN h /\ h["Content-Type"] = ClaimedDefault(bt)
           ELSE "Content-Type" \notin DOMAIN h
        /\ \A key \in DOMAIN ch : key \in DOMAIN h /\ h[key] = ch[key]
        /\ DOMAIN h \subseteq (DOMAIN ch \cup {"Content-Type"})

C4_Witness ==
  \E i \in Invocations :
    /\ Len(sent[i]) = 1
    /\ args[i].body.kind = "dict"
    /\ Lower(args[i].body_type) = S_json
    /\ ~IsNone(args[i].headers)
    /\ "Content-Type" \in DOMAIN args[i].headers[1]
    /\ sent[i][1].headers["Content-Type"] = "text/html"

\* C5: the request block of a success envelope has the caller's url, headers
\* and params (empty mapping when absent) and the caller's method in
\* uppercase; the headers are the caller's even when the outbound headers
\* got a default Content-Type.
C5_EchoIsCallers ==
  \A i \in Invocations :
    (Returned(i) /\ IsSuccessEnvelope(result[i][1])) =>
      LET r == result[i][1].request
          a == args[i]
      IN  /\ r.url = a.url
          /\ r.headers = (IF IsNone(a.headers) THEN EmptyDict ELSE a.headers[1])
          /\ r.params = (IF IsNone(a.params) THEN EmptyDict ELSE a.params[1])
          /\ r.method = Upper(a.method)

C5_Witness ==
  \E i \in Invocations :
    /\ Returned(i)
    /\ IsSuccessEnvelope(result[i][1])
    /\ args[i].method = S_post
    /\ result[i][1].request.method = S_POST
    /\ "Content-Type" \in DOMAIN sent[i][1].headers
    /\ "Content-Type" \notin DOMAIN result[i][1].request.headers

\* C6: a method is accepted exactly when its uppercase form is one of the
\* seven methods; then the descriptor, the outbound request and the success
\* envelope carry the uppercase form; otherwise the invocation fails with an
\* invalid-method error that names the value as the caller wrote it.
SevenMethods == {S_GET, S_POST, S_PUT, S_DELETE, S_PATCH, S_HEAD, S_OPTIONS}

C6_MethodNormalised ==
  \A i \in Invocations :
    LET a == args[i]
        others == ArgsValid([a EXCEPT !.method = S_GET])
    IN  (pc[i] # "start" /\ others) =>
          /\ ~IsNone(request_params[i]) <=> Upper(a.method) \in SevenMethods
          /\ ~IsNone(request_params[i]) =>
               /\ request_params[i][1].method = Upper(a.method)
               /\ \A k \in 1..Len(sent[i]) : sent[i][k].method = Upper(a.method)
               /\ (Returned(i) /\ IsSuccessEnvelope(result[i][1])) =>
                    result[i][1].request.method = Upper(a.method)
          /\ IsNone(request_params[i]) =>
               /\ Returned(i)
               /\ IsErrorEnvelope(result[i][1])
               /\ "InvalidMethod" \in result[i][1].message.kinds
               /\ result[i][1].message.value = a.method

C6_Witness ==
  \E i \in Invocations :
    /\ args[i].method = <<"g","E","t">>
    /\ Returned(i)
    /\ IsSuccessEnvelope(result[i][1])
    /\ sent[i][1].method = S_GET
    /\ result[i][1].request.method = S_GET

\* C7: in a success envelope the echoed body_type is non-null exactly when
\* the invocation had a body, that is, exactly when a request body was built
\* and sent.
C7_BodyTypeEcho ==
  \A i \in Invocations :
    (Returned(i) /\ IsSuccessEnvelope(result[i][1])) =>
      /\ ~IsNone(result[i][1].request.body_type) <=> args[i].body.kind # "none"
      /\ ~IsNone(result[i][1].request.body_type) <=> ~IsNone(sent[i][1].content)

\* C8 as stated: table codes get their phrase, other codes the phrase of
\* their class, and 'Unknown' is produced exactly for codes outside 100-599.
ClassPhrases(c, t) ==
  /\ t.code = c
  /\ c \in DOMAIN status_texts => t.phrase = status_texts[c]
  /\ (c \notin DOMAIN status_texts /\ 200 <= c /\ c <= 299) => t.phrase = "Success"
  /\ (c \notin DOMAIN status_texts /\ 300 <= c /\ c <= 399) => t.phrase = "Redirection"
  /\ (c \notin DOMAIN status_texts /\ 400 <= c /\ c <= 499) => t.phrase = "Client Error"
  /\ (c \notin DOMAIN status_texts /\ 500 <= c /\ c <= 599) => t.phrase = "Server Error"

C8_Original ==
  ~IsNone(stText) =>
    /\ ClassPhrases(stCode, stText[1])
    /\ stText[1].phrase = "Unknown" <=> (stCode < 100 \/ stCode > 599)

\* C8 amended: as above, but 'Unknown' is produced exactly for the codes
\* that are not in the table and lie outside 200-599 (102 gives
\* '102 Unknown', 499 '499 Client Error', 650 '650 Unknown').
C8_StatusText ==
  ~IsNone(stText) =>
    /\ ClassPhrases(stCode, stText[1])
    /\ stText[1].phrase = "Unknown" <=>
         (stCode \notin DOMAIN status_texts /\ (stCode < 200 \/ stCode > 599))
    /\ stCode = 499 => stText[1] = [code |-> 499, phrase |-> "Client Error"]
    /\ stCode = 650 => stText[1] = [code |-> 650, phrase |-> "Unknown"]

C8_Witness == stText = Some([code |-> 102, phrase |-> "Unknown"])

\* C9: an invocation issues at most one request; a returned invocation has
\* issued exactly one when its arguments are valid and its body could be
\* built, and none otherwise; after a failed request the envelope returned
\* is the error envelope of that first failure.
C9_ExactlyOneRequest ==
  \A i \in Invocations :
    /\ Len(sent[i]) <= 1
    /\ pc[i] = "returned" =>
         Len(sent[i]) = (IF ArgsValid(args[i]) /\ BodyOk(args[i]) THEN 1 ELSE 0)
    /\ (pc[i] = "returned" /\ CallFailed(i)) =>
         /\ ~IsNone(result[i])
         /\ IsErrorEnvelope(result[i][1])
         /\ result[i][1].message = outcome[i][1].exc.msg

C9_Witness ==
  \E i \in Invocations :
    /\ Returned(i)
    /\ CallFailed(i)
    /\ outcome[i][1].cause = "ConnectError"
    /\ Len(sent[i]) = 1

\* C10: with several invocations interleaved, every request of an
\* invocation goes through the client that invocation opened, no two
\* invocations have the same client, the client stays open while its
\* invocation is using it, it is closed once the invocation has returned,
\* and the envelope returned is the one the invocation's own arguments and
\* own request outcome give.
OwnEnvelope(i) ==
  IF IsNone(outcome[i])
  THEN IF ~ArgsValid(args[i])
       THEN ErrorEnvelope(args[i], ValidationError(args[i]))
       ELSE ErrorEnvelope(args[i], InvalidJsonBody)
  ELSE IF outcome[i][1].ok
  THEN SuccessEnvelope(args[i], HttpRequestParams(args[i]),
                       BuildBody(HttpRequestParams(args[i])).headers,
                       outcome[i][1].status_code)
  ELSE ErrorEnvelope(args[i], outcome[i][1].exc)

C10_OwnClient ==
  \A i \in Invocations :
    /\ \A k \in 1..Len(sent[i]) :
         ~IsNone(client[i]) /\ sent[i][k].client = client[i][1]
    /\ \A j \in Invocations \ {i} :
         (~IsNone(client[i]) /\ ~IsNone(client[j])) => client[i][1] # client[j][1]
    /\ pc[i] \in {"send", "await", "close"} => client[i][1] \in openClients
    /\ (pc[i] = "returned" /\ ~IsNone(client[i])) => client[i][1] \notin openClients
    /\ Returned(i) => result[i][1] = OwnEnvelope(i)

C10_Witness ==
  \E i \in Invocations : \E j \in Invocations \ {i} :
    /\ Returned(i)
    /\ CallFailed(i)
    /\ ~IsNone(client[i])
    /\ pc[j] = "await"
    /\ client[j][1] \in openClients

====
